---- MODULE Spec2Model ----
(***************************************************************************)
(* Turn-staging state machine of the Qwirkle game (src/src/Game.cpp,       *)
(* src/src/Board.cpp): tile bag, player hand, staged placements, board.    *)
(* Each click handler of Game::run is a pure operator on a state record    *)
(* and one action of the next-state relation.                              *)
(***************************************************************************)
EXTENDS Integers, Sequences, FiniteSets, TLC

VARIABLES tileBag, playerHand, selectedHandIndex, stagedTiles, board,
          lastOp, pre, turns, turnStart

vars == <<tileBag, playerHand, selectedHandIndex, stagedTiles, board, lastOp, pre, turns,
          turnStart>>

----------------------------------------------------------------------------
(* Bounds of the model *)

\* seeds explored for the construction of the bag alone
NumBagSeeds == 40
\* seeds of the random number generator that are explored
NumSeeds == 2
\* board clicks land on the cells (0..MaxX) x (-1..0)
MaxX == 0
\* number of commits and resets of a session that are explored
MaxTurns == 2
\* number of scripted turns played before the late-game specification starts
LateTurns == 101

\* the player of SpecPlay picks any occupied slot once the bag holds at most
\* FreeBag tiles, the lowest occupied slot before
FreeBag == 1

(* Program constants *)

HAND_SIZE == 6
NUM_COPIES == 3
BAG_SIZE == 108

----------------------------------------------------------------------------
(* Tile.h *)

\* in the order of the initializer list of initTileBag
Shapes == <<"Circle", "Square", "Diamond", "Astericks", "Clover", "Fourpoint">>
Colors == <<"Red", "Orange", "Yellow", "Green", "Blue", "Purple">>

Tile(s, c) == [shape |-> s, color |-> c]

\* every (shape, color) pair of the two enumerations
AllTiles == {Tile(Shapes[s], Colors[c]) : s \in 1..Len(Shapes), c \in 1..Len(Colors)}

\* std::optional<Tile>: std::nullopt is the empty sequence, a value a 1-sequence
nullopt == <<>>
Some(t) == <<t>>
has_value(o) == Len(o) = 1
value(o) == o[1]

----------------------------------------------------------------------------
(* Board.h / Board.cpp *)

Coords == (0..MaxX) \X ((-1)..0)

\* std::pair<int,int> operator< : lexicographic
CoordLess(a, b) == a[1] < b[1] \/ (a[1] = b[1] /\ a[2] < b[2])

\* std::map<Coord, Tile> is a function on its set of keys
EmptyMap == [c \in {} |-> Tile("Circle", "Red")]

\* tiles[{x, y}] = tile : inserts, or overwrites an existing entry
MapPut(m, c, t) == (c :> t) @@ m

placeTile(b, c, t) == MapPut(b, c, t)

\* variant: reports every cell free
isOccupiedNever(b, c) == FALSE

isOccupied(b, c) == c \in DOMAIN b

\* variant: the greatest key comes first
LastKey(m) == CHOOSE c \in DOMAIN m : \A d \in DOMAIN m : d = c \/ CoordLess(d, c)

\* begin() of a non-empty std::map: the least key
FirstKey(m) == CHOOSE c \in DOMAIN m : \A d \in DOMAIN m : d = c \/ CoordLess(c, d)

MapErase(m, c) == [d \in (DOMAIN m) \ {c} |-> m[d]]

----------------------------------------------------------------------------
(* Game: bag *)

\* the three nested loops of initTileBag, before the shuffle: the k-th
\* push_back (k from 0) is copy k % 3 of colour (k / 3) % 6 of shape k / 18
OrderedBag ==
    LET n == Len(Shapes) * Len(Colors) * NUM_COPIES
    IN  SubSeq([k \in 1..n |->
                  Tile(Shapes[1 + ((k - 1) \div (Len(Colors) * NUM_COPIES))],
                       Colors[1 + (((k - 1) \div NUM_COPIES) % Len(Colors))])], 1, n)

\* the generator rng, abstracted to a linear congruential generator
NextRandom(r) == (r * 75 + 74) % 65537

\* variant: position i is overwritten, position j is left as it was
SwapOverwrite(v, i, j) == [v EXCEPT ![i] = v[j]]

Swap(v, i, j) == [v EXCEPT ![i] = v[j], ![j] = v[i]]

\* one iteration of std::shuffle: swap position i with a position drawn
\* from first..i
ShuffleStep(vr, i) ==
    [v |-> Swap(vr.v, i, 1 + (NextRandom(vr.r) % i)), r |-> NextRandom(vr.r)]

\* the iterations lo..hi of the loop of std::shuffle, in order; the first
\* half is evaluated before the second is entered
RECURSIVE ShuffleRange(_, _, _)
ShuffleRange(vr, lo, hi) ==
    IF lo > hi THEN vr
    ELSE IF lo = hi THEN ShuffleStep(vr, lo)
    ELSE LET mid == (lo + hi) \div 2
             first == ShuffleRange(vr, lo, mid)
         IN  IF Len(first.v) = 0 THEN first ELSE ShuffleRange(first, mid + 1, hi)

Seeds == 1..NumSeeds

initTileBag(seed) == ShuffleRange([v |-> OrderedBag, r |-> seed], 2, Len(OrderedBag)).v

\* variant: takes the tile at the front of the bag
drawTileFromFront(bag) ==
    IF Len(bag) = 0
    THEN [tile |-> Tile("Circle", "Red"), bag |-> bag]
    ELSE [tile |-> bag[1], bag |-> SubSeq(bag, 2, Len(bag))]

\* returns the tile and the bag left
drawTileFromBag(bag) ==
    IF Len(bag) = 0
    THEN [tile |-> Tile("Circle", "Red"), bag |-> bag]
    ELSE [tile |-> bag[Len(bag)], bag |-> SubSeq(bag, 1, Len(bag) - 1)]

----------------------------------------------------------------------------
(* Game: hand.  std::vector<std::optional<Tile>> is a function on 0..size-1 *)

size(v) == Cardinality(DOMAIN v)

\* playerHand.assign(6, std::nullopt)
EmptyHand == [i \in 0..(HAND_SIZE - 1) |-> nullopt]

\* if (playerHand.size() != 6) playerHand.assign(6, std::nullopt);
EnsureSix(hand) == IF size(hand) # HAND_SIZE THEN EmptyHand ELSE hand

\* variant: the refill loop draws without testing the bag
RECURSIVE RefillFromUnguarded(_, _, _)
RefillFromUnguarded(hand, bag, i) ==
    IF i >= size(hand) THEN [hand |-> hand, bag |-> bag]
    ELSE IF ~has_value(hand[i])
         THEN LET d == drawTileFromBag(bag)
              IN  RefillFromUnguarded([hand EXCEPT ![i] = Some(d.tile)], d.bag, i + 1)
         ELSE RefillFromUnguarded(hand, bag, i + 1)

\* variant: the refill loop leaves after the first slot it fills
RECURSIVE RefillFromOne(_, _, _)
RefillFromOne(hand, bag, i) ==
    IF i >= size(hand) THEN [hand |-> hand, bag |-> bag]
    ELSE IF ~has_value(hand[i]) /\ Len(bag) # 0
         THEN LET d == drawTileFromBag(bag)
              IN  [hand |-> [hand EXCEPT ![i] = Some(d.tile)], bag |-> d.bag]
         ELSE RefillFromOne(hand, bag, i + 1)

RECURSIVE RefillFrom(_, _, _)
RefillFrom(hand, bag, i) ==
    IF i >= size(hand) THEN [hand |-> hand, bag |-> bag]
    ELSE IF ~has_value(hand[i]) /\ Len(bag) # 0
         THEN LET d == drawTileFromBag(bag)
              IN  RefillFrom([hand EXCEPT ![i] = Some(d.tile)], d.bag, i + 1)
         ELSE RefillFrom(hand, bag, i + 1)

refillHand(hand, bag) == RefillFrom(EnsureSix(hand), bag, 0)

\* variant: the search for an empty slot never succeeds
FirstEmptySlotNone(hand, i) == -1

\* the inner loop of resetUnconfirmedTiles: index of the first empty slot at
\* or after i, or -1 when there is none
RECURSIVE FirstEmptySlot(_, _)
FirstEmptySlot(hand, i) ==
    IF i >= size(hand) THEN -1
    ELSE IF ~has_value(hand[i]) THEN i
    ELSE FirstEmptySlot(hand, i + 1)

\* variant: the outer loop leaves after the first staged entry
ReturnStagedFirstOnly(hand, bag, staged) ==
    IF DOMAIN staged = {} THEN [hand |-> hand, bag |-> bag]
    ELSE LET c == FirstKey(staged)
             t == staged[c]
             h == EnsureSix(hand)
             i == FirstEmptySlot(h, 0)
         IN  IF i >= 0
             THEN [hand |-> [h EXCEPT ![i] = Some(t)], bag |-> bag]
             ELSE [hand |-> h, bag |-> Append(bag, t)]

\* the outer loop of resetUnconfirmedTiles over stagedTiles in key order
RECURSIVE ReturnStaged(_, _, _)
ReturnStaged(hand, bag, staged) ==
    IF DOMAIN staged = {} THEN [hand |-> hand, bag |-> bag]
    ELSE LET c == FirstKey(staged)
             t == staged[c]
             h == EnsureSix(hand)
             i == FirstEmptySlot(h, 0)
         IN  IF i >= 0
             THEN ReturnStaged([h EXCEPT ![i] = Some(t)], bag, MapErase(staged, c))
             ELSE ReturnStaged(h, Append(bag, t), MapErase(staged, c))

----------------------------------------------------------------------------
(* Game state and the click handlers of Game::run *)

State(bag, hand, sel, staged, b) ==
    [tileBag |-> bag, playerHand |-> hand, selectedHandIndex |-> sel,
     stagedTiles |-> staged, board |-> b]

\* run(), before the event loop: initTileBag, hand of 6 empty slots, refillHand
Construct(seed) ==
    LET r == refillHand(EmptyHand, initTileBag(seed))
    IN  State(r.bag, r.hand, -1, EmptyMap, EmptyMap)

\* variant: selects the clicked slot whether or not it holds a tile
selectSlotAny(s, i) ==
    IF s.selectedHandIndex = i
    THEN [s EXCEPT !.selectedHandIndex = -1]
    ELSE [s EXCEPT !.selectedHandIndex = i]

\* variant: a click on the selected slot keeps it selected
selectSlotNoToggle(s, i) ==
    IF has_value(s.playerHand[i])
    THEN [s EXCEPT !.selectedHandIndex = i]
    ELSE s

\* variant: a click on an empty slot clears the selection
selectSlotEmptyClears(s, i) ==
    IF has_value(s.playerHand[i])
    THEN IF s.selectedHandIndex = i
         THEN [s EXCEPT !.selectedHandIndex = -1]
         ELSE [s EXCEPT !.selectedHandIndex = i]
    ELSE [s EXCEPT !.selectedHandIndex = -1]

\* left click on hand slot i
selectSlot(s, i) ==
    IF has_value(s.playerHand[i])
    THEN IF s.selectedHandIndex = i
         THEN [s EXCEPT !.selectedHandIndex = -1]
         ELSE [s EXCEPT !.selectedHandIndex = i]
    ELSE s

\* variant: the placed tile stays in its hand slot
placeAtKeepsTile(s, c) ==
    LET sel == s.selectedHandIndex
    IN  IF sel >= 0 /\ sel < size(s.playerHand) /\ has_value(s.playerHand[sel])
        THEN IF ~isOccupied(s.board, c) /\ c \notin DOMAIN s.stagedTiles
             THEN [s EXCEPT !.stagedTiles = MapPut(s.stagedTiles, c, value(s.playerHand[sel])),
                            !.selectedHandIndex = -1]
             ELSE s
        ELSE s

\* variant: the selection survives a successful placement
placeAtKeepsSelection(s, c) ==
    LET sel == s.selectedHandIndex
    IN  IF sel >= 0 /\ sel < size(s.playerHand) /\ has_value(s.playerHand[sel])
        THEN IF ~isOccupied(s.board, c) /\ c \notin DOMAIN s.stagedTiles
             THEN [s EXCEPT !.stagedTiles = MapPut(s.stagedTiles, c, value(s.playerHand[sel])),
                            !.playerHand = [s.playerHand EXCEPT ![sel] = nullopt]]
             ELSE s
        ELSE s

\* variant: only the board is checked, a staged cell is overwritten
placeAtOverStaged(s, c) ==
    LET sel == s.selectedHandIndex
    IN  IF sel >= 0 /\ sel < size(s.playerHand) /\ has_value(s.playerHand[sel])
        THEN IF ~isOccupied(s.board, c)
             THEN [s EXCEPT !.stagedTiles = MapPut(s.stagedTiles, c, value(s.playerHand[sel])),
                            !.playerHand = [s.playerHand EXCEPT ![sel] = nullopt],
                            !.selectedHandIndex = -1]
             ELSE s
        ELSE s

\* variant: with no slot selected, the tile of slot 0 is placed
placeAtFromIdle(s, c) ==
    LET sel == IF s.selectedHandIndex < 0 THEN 0 ELSE s.selectedHandIndex
    IN  IF sel < size(s.playerHand) /\ has_value(s.playerHand[sel])
        THEN IF ~isOccupied(s.board, c) /\ c \notin DOMAIN s.stagedTiles
             THEN [s EXCEPT !.stagedTiles = MapPut(s.stagedTiles, c, value(s.playerHand[sel])),
                            !.playerHand = [s.playerHand EXCEPT ![sel] = nullopt],
                            !.selectedHandIndex = -1]
             ELSE s
        ELSE s

\* variant: the slot of the placed tile is erased from the vector
placeAtErasesSlot(s, c) ==
    LET sel == s.selectedHandIndex
        h == s.playerHand
    IN  IF sel >= 0 /\ sel < size(h) /\ has_value(h[sel])
        THEN IF ~isOccupied(s.board, c) /\ c \notin DOMAIN s.stagedTiles
             THEN [s EXCEPT !.stagedTiles = MapPut(s.stagedTiles, c, value(h[sel])),
                            !.playerHand = [i \in 0..(size(h) - 2) |->
                                               IF i < sel THEN h[i] ELSE h[i + 1]],
                            !.selectedHandIndex = -1]
             ELSE s
        ELSE s

\* variant: the placement guard ignores the board
placeAtOverBoard(s, c) ==
    LET sel == s.selectedHandIndex
    IN  IF sel >= 0 /\ sel < size(s.playerHand) /\ has_value(s.playerHand[sel])
        THEN IF c \notin DOMAIN s.stagedTiles
             THEN [s EXCEPT !.stagedTiles = MapPut(s.stagedTiles, c, value(s.playerHand[sel])),
                            !.playerHand = [s.playerHand EXCEPT ![sel] = nullopt],
                            !.selectedHandIndex = -1]
             ELSE s
        ELSE s

\* left click on the board cell c
placeAt(s, c) ==
    LET sel == s.selectedHandIndex
    IN  IF sel >= 0 /\ sel < size(s.playerHand) /\ has_value(s.playerHand[sel])
        THEN IF ~isOccupied(s.board, c) /\ c \notin DOMAIN s.stagedTiles
             THEN [s EXCEPT !.stagedTiles = MapPut(s.stagedTiles, c, value(s.playerHand[sel])),
                            !.playerHand = [s.playerHand EXCEPT ![sel] = nullopt],
                            !.selectedHandIndex = -1]
             ELSE s
        ELSE s

\* variant: the commit loop stops after the first staged entry
PlaceStagedFirstOnly(b, staged) ==
    IF DOMAIN staged = {} THEN b
    ELSE placeTile(b, FirstKey(staged), staged[FirstKey(staged)])

\* the commit loop: board.placeTile for each staged entry in key order
RECURSIVE PlaceStaged(_, _)
PlaceStaged(b, staged) ==
    IF DOMAIN staged = {} THEN b
    ELSE LET c == FirstKey(staged)
         IN  PlaceStaged(placeTile(b, c, staged[c]), MapErase(staged, c))

\* variant: the selection survives the commit
commitTurnKeepsSelection(s) ==
    LET b == PlaceStaged(s.board, s.stagedTiles)
        r == refillHand(s.playerHand, s.tileBag)
    IN  State(r.bag, r.hand, s.selectedHandIndex, EmptyMap, b)

\* variant: the staging area is cleared before the commit loop runs
commitTurnClearsFirst(s) ==
    LET r == refillHand(s.playerHand, s.tileBag)
    IN  State(r.bag, r.hand, -1, EmptyMap, s.board)

\* left click on the confirm button
commitTurn(s) ==
    LET b == PlaceStaged(s.board, s.stagedTiles)
        r == refillHand(s.playerHand, s.tileBag)
    IN  State(r.bag, r.hand, -1, EmptyMap, b)

\* variant: the staged tiles are not cleared by the reset
resetTurnKeepsStaged(s) ==
    LET r == ReturnStaged(s.playerHand, s.tileBag, s.stagedTiles)
    IN  State(r.bag, r.hand, -1, s.stagedTiles, s.board)

\* left click on the reset button: resetUnconfirmedTiles
resetTurn(s) ==
    LET r == ReturnStaged(s.playerHand, s.tileBag, s.stagedTiles)
    IN  State(r.bag, r.hand, -1, EmptyMap, s.board)

----------------------------------------------------------------------------
(* The state machine *)

Cur == State(tileBag, playerHand, selectedHandIndex, stagedTiles, board)

Op(name, i, c) == [op |-> name, slot |-> i, coord |-> c]

\* the step from the current state to s by the operation o; lastOp and pre
\* record the operation and the state it started from, turnStart the state
\* right after the last initialization, commit or reset
Becomes(s, o) ==
    /\ tileBag' = s.tileBag
    /\ playerHand' = s.playerHand
    /\ selectedHandIndex' = s.selectedHandIndex
    /\ stagedTiles' = s.stagedTiles
    /\ board' = s.board
    /\ lastOp' = o
    /\ pre' = Cur
    /\ turns' = IF o.op \in {"commitTurn", "resetTurn"} THEN turns + 1 ELSE turns
    /\ turnStart' = IF o.op \in {"init", "commitTurn", "resetTurn"} THEN s ELSE turnStart

Starts(s) ==
    /\ tileBag = s.tileBag
    /\ playerHand = s.playerHand
    /\ selectedHandIndex = s.selectedHandIndex
    /\ stagedTiles = s.stagedTiles
    /\ board = s.board
    /\ lastOp = Op("init", -1, <<0, 0>>)
    /\ pre = s
    /\ turns = 0
    /\ turnStart = s

Init == \E seed \in Seeds : Starts(Construct(seed))

\* the session explored ends with its MaxTurns-th commit or reset
Playing == turns < MaxTurns

SelectSlot ==
    /\ Playing
    /\ \E i \in 0..(HAND_SIZE - 1) :
          Becomes(selectSlot(Cur, i), Op("selectSlot", i, <<0, 0>>))

PlaceAt ==
    /\ Playing
    /\ \E c \in Coords : Becomes(placeAt(Cur, c), Op("placeAt", -1, c))

CommitTurn ==
    /\ Playing
    /\ Becomes(commitTurn(Cur), Op("commitTurn", -1, <<0, 0>>))

ResetTurn ==
    /\ Playing
    /\ Becomes(resetTurn(Cur), Op("resetTurn", -1, <<0, 0>>))

Next == SelectSlot \/ PlaceAt \/ CommitTurn \/ ResetTurn

Spec == Init /\ [][Next]_vars

----------------------------------------------------------------------------
(* The late game: the same session, entered after LateTurns turns in each   *)
(* of which the player clicked hand slot 0, then a free cell of the row     *)
(* y = 1 (outside the cells explored afterwards), then the confirm button.  *)

ScriptedTurn(s, k) == commitTurn(placeAt(selectSlot(s, 0), <<k, 1>>))

\* the scripted turns lo..hi in order; the first half is evaluated before
\* the second is entered
RECURSIVE ScriptedTurns(_, _, _)
ScriptedTurns(s, lo, hi) ==
    IF lo > hi THEN s
    ELSE IF lo = hi THEN ScriptedTurn(s, lo)
    ELSE LET mid == (lo + hi) \div 2
             first == ScriptedTurns(s, lo, mid)
         IN  IF first.selectedHandIndex # -1 THEN first
             ELSE ScriptedTurns(first, mid + 1, hi)

InitLate == \E seed \in Seeds : Starts(ScriptedTurns(Construct(seed), 1, LateTurns))

\* one scripted turn later
InitLast == \E seed \in Seeds : Starts(ScriptedTurns(Construct(seed), 1, LateTurns + 1))

----------------------------------------------------------------------------
(* The construction, statement by statement: run() calls initTileBag, then  *)
(* assigns the hand, then refillHand.                                       *)

BagSeeds == 1..NumBagSeeds

\* a default-constructed std::vector
EmptyVector == [i \in {} |-> nullopt]

\* the Game right after initTileBag(): the hand is still the empty vector
InitBag ==
    \E seed \in BagSeeds :
        /\ tileBag = initTileBag(seed)
        /\ playerHand = EmptyVector
        /\ selectedHandIndex = -1
        /\ stagedTiles = EmptyMap
        /\ board = EmptyMap
        /\ lastOp = Op("initTileBag", -1, <<0, 0>>)
        /\ pre = State(<<>>, EmptyVector, -1, EmptyMap, EmptyMap)
        /\ turns = 0
        /\ turnStart = State(<<>>, EmptyVector, -1, EmptyMap, EmptyMap)

\* playerHand.assign(6, std::nullopt)
AssignHand ==
    /\ lastOp.op = "initTileBag"
    /\ Becomes([Cur EXCEPT !.playerHand = EmptyHand], Op("assign", -1, <<0, 0>>))

\* the first refillHand()
InitialRefill ==
    /\ lastOp.op = "assign"
    /\ LET r == refillHand(playerHand, tileBag)
       IN  Becomes([Cur EXCEPT !.playerHand = r.hand, !.tileBag = r.bag],
                   Op("init", -1, <<0, 0>>))

NextBag == AssignHand \/ InitialRefill

SpecBag == InitBag /\ [][NextBag]_vars

\* both entries into the session: right after construction, and the late game
SpecAll == (Init \/ InitLate) /\ [][Next]_vars

\* the same with the entry one turn later, when the bag is empty
SpecEnd == (Init \/ InitLate \/ InitLast) /\ [][Next]_vars

----------------------------------------------------------------------------
(* The session of a player who, turn after turn, clicks an occupied hand    *)
(* slot, then a free cell, then the confirm button.                         *)

\* the slots the player may click
PlayerSlots ==
    LET occ == {i \in DOMAIN playerHand : has_value(playerHand[i])}
    IN  IF Len(tileBag) <= FreeBag THEN occ
        ELSE {i \in occ : \A j \in occ : i <= j}

\* the cell the player clicks in the turn: a cell of the row y = 1
PlayerCell == <<turns + 1, 1>>

PlaySelect ==
    /\ selectedHandIndex = -1
    /\ DOMAIN stagedTiles = {}
    /\ \E i \in PlayerSlots :
          Becomes(selectSlot(Cur, i), Op("selectSlot", i, <<0, 0>>))

PlayPlace ==
    /\ selectedHandIndex >= 0
    /\ ~isOccupied(board, PlayerCell)
    /\ PlayerCell \notin DOMAIN stagedTiles
    /\ Becomes(placeAt(Cur, PlayerCell), Op("placeAt", -1, PlayerCell))

PlayCommit ==
    /\ DOMAIN stagedTiles # {}
    /\ Becomes(commitTurn(Cur), Op("commitTurn", -1, <<0, 0>>))

NextPlay == PlaySelect \/ PlayPlace \/ PlayCommit

\* the player goes on clicking while a click of the three is possible
SpecPlay ==
    /\ Init
    /\ [][NextPlay]_vars
    /\ WF_vars(PlaySelect)
    /\ WF_vars(PlayPlace)
    /\ WF_vars(PlayCommit)

----------------------------------------------------------------------------
(* Properties *)

Slots == 0..(HAND_SIZE - 1)

OccupiedSlots(hand) == {i \in DOMAIN hand : has_value(hand[i])}

EmptySlots(hand) == {i \in DOMAIN hand : ~has_value(hand[i])}

\* Selected(i) of the turn controller: slot i is selected and holds a tile
IsSelected(s, i) ==
    s.selectedHandIndex = i /\ i \in DOMAIN s.playerHand /\ has_value(s.playerHand[i])

IsIdle(s) == s.selectedHandIndex = -1

\* C1: in every state reachable after initialization, the tiles in the bag,
\* in occupied hand slots, staged and on the board number 108 together.
Conservation ==
    Len(tileBag) + Cardinality(OccupiedSlots(playerHand))
      + Cardinality(DOMAIN stagedTiles) + Cardinality(DOMAIN board) = BAG_SIZE

\* a reset of a non-empty staging area, after a commit that put a tile on a
\* clicked cell
ConservationWitness ==
    /\ lastOp.op = "resetTurn"
    /\ DOMAIN pre.stagedTiles # {}
    /\ Coords \cap DOMAIN board # {}

\* C2: every step keeps each entry of the board: a coordinate present before
\* the step is present after it, with the same tile.
BoardAppendOnly ==
    \A c \in DOMAIN pre.board : c \in DOMAIN board /\ board[c] = pre.board[c]

\* a commit of staged tiles onto a board that holds clicked cells already
BoardAppendOnlyWitness ==
    /\ lastOp.op = "commitTurn"
    /\ DOMAIN pre.stagedTiles # {}
    /\ Coords \cap DOMAIN pre.board # {}
    /\ DOMAIN board # DOMAIN pre.board

\* the case of C3: placeAt(c) from Selected(i) on a cell neither on the board
\* nor staged
PlacementAccepted(i, c) ==
    /\ lastOp.op = "placeAt" /\ lastOp.coord = c
    /\ IsSelected(pre, i)
    /\ c \notin DOMAIN pre.board
    /\ c \notin DOMAIN pre.stagedTiles

\* C3: a successful placement moves exactly one tile, from hand slot i to
\* the staging area at c, and ends in Idle; everything else is unchanged.
PlacementMovesOneTile ==
    \A i \in Slots, c \in Coords :
        PlacementAccepted(i, c) =>
            /\ playerHand[i] = nullopt
            /\ c \in DOMAIN stagedTiles
            /\ stagedTiles[c] = value(pre.playerHand[i])
            /\ selectedHandIndex = -1
            /\ DOMAIN playerHand = DOMAIN pre.playerHand
            /\ \A j \in DOMAIN playerHand \ {i} : playerHand[j] = pre.playerHand[j]
            /\ DOMAIN stagedTiles = DOMAIN pre.stagedTiles \cup {c}
            /\ \A d \in DOMAIN pre.stagedTiles : stagedTiles[d] = pre.stagedTiles[d]
            /\ board = pre.board
            /\ tileBag = pre.tileBag

\* a successful placement next to a tile staged before
PlacementMovesOneTileWitness ==
    \E i \in Slots, c \in Coords :
        PlacementAccepted(i, c) /\ DOMAIN pre.stagedTiles # {}

\* the case of C4: placeAt(c) from Selected(i) on a cell of the board or of
\* the staging area
PlacementRejected(i, c) ==
    /\ lastOp.op = "placeAt" /\ lastOp.coord = c
    /\ IsSelected(pre, i)
    /\ (isOccupied(pre.board, c) \/ c \in DOMAIN pre.stagedTiles)

\* C4: a rejected placement changes nothing, and the selection stays.
RejectedPlacementNoOp ==
    \A i \in Slots, c \in Coords : PlacementRejected(i, c) => Cur = pre

\* a placement rejected for a staged cell, while the board holds a clicked
\* cell too
RejectedPlacementNoOpWitness ==
    \E i \in Slots, c \in Coords :
        /\ PlacementRejected(i, c)
        /\ c \in DOMAIN pre.stagedTiles
        /\ Coords \cap DOMAIN pre.board # {}

\* C5: a commit lands the whole staged batch: the board is the board before
\* extended with every staged entry, the staging area is empty, the state Idle.
CommitLandsBatch ==
    lastOp.op = "commitTurn" =>
        /\ DOMAIN board = DOMAIN pre.board \cup DOMAIN pre.stagedTiles
        /\ \A c \in DOMAIN pre.stagedTiles : board[c] = pre.stagedTiles[c]
        /\ \A c \in DOMAIN pre.board : board[c] = pre.board[c]
        /\ stagedTiles = EmptyMap
        /\ selectedHandIndex = -1

\* a commit of two staged tiles, clicked while a slot was selected
CommitLandsBatchWitness ==
    /\ lastOp.op = "commitTurn"
    /\ Cardinality(DOMAIN pre.stagedTiles) >= 2
    /\ pre.selectedHandIndex >= 0

Min(a, b) == IF a <= b THEN a ELSE b

\* rank of i among the set S of slot indices, from 1, in ascending order
SlotRank(S, i) == Cardinality({j \in S : j <= i})

\* rank of c among the set K of coordinates, from 1, in ascending order
CoordRank(K, c) == Cardinality({d \in K : d = c \/ CoordLess(d, c)})

\* C6: a commit fills the empty hand slots in ascending index order, each
\* with the next tile popped from the end of the bag, until the bag is empty;
\* occupied slots keep their tile.  Afterwards the hand is full or the bag
\* empty, and a commit on an empty bag leaves the hand as it was.
RefillOnCommit ==
    lastOp.op = "commitTurn" =>
        LET E == EmptySlots(pre.playerHand)
            n == Len(pre.tileBag)
        IN  /\ DOMAIN playerHand = DOMAIN pre.playerHand
            /\ \A i \in DOMAIN playerHand :
                  playerHand[i] =
                      IF i \in E /\ SlotRank(E, i) <= n
                      THEN Some(pre.tileBag[n + 1 - SlotRank(E, i)])
                      ELSE pre.playerHand[i]
            /\ tileBag = SubSeq(pre.tileBag, 1, n - Min(Cardinality(E), n))
            /\ (OccupiedSlots(playerHand) = Slots \/ tileBag = <<>>)
            /\ (n = 0 => playerHand = pre.playerHand)

\* a commit with more empty slots than tiles left in a non-empty bag
RefillOnCommitWitness ==
    /\ lastOp.op = "commitTurn"
    /\ Len(pre.tileBag) >= 1
    /\ Cardinality(EmptySlots(pre.playerHand)) > Len(pre.tileBag)

\* C7: a reset empties the staging area, ends in Idle, leaves board and bag
\* alone, and returns the k-th staged tile in ascending coordinate order to
\* the k-th lowest hand slot that was empty before the reset.
ResetReturnsTiles ==
    lastOp.op = "resetTurn" =>
        LET K == DOMAIN pre.stagedTiles
            E == EmptySlots(pre.playerHand)
        IN  /\ stagedTiles = EmptyMap
            /\ selectedHandIndex = -1
            /\ board = pre.board
            /\ tileBag = pre.tileBag
            /\ \A c \in K : \E i \in E :
                  /\ SlotRank(E, i) = CoordRank(K, c)
                  /\ playerHand[i] = Some(pre.stagedTiles[c])

\* a reset of two different staged tiles, clicked while a slot was selected
ResetReturnsTilesWitness ==
    /\ lastOp.op = "resetTurn"
    /\ pre.selectedHandIndex >= 0
    /\ \E c, d \in DOMAIN pre.stagedTiles : pre.stagedTiles[c] # pre.stagedTiles[d]

\* C8: the selection is none, or one index in 0..5 whose hand slot holds a
\* tile.
SelectionValid ==
    \/ selectedHandIndex = -1
    \/ selectedHandIndex \in Slots /\ has_value(playerHand[selectedHandIndex])

\* a slot is selected while another slot is empty, after a click on the board
SelectionValidWitness ==
    /\ selectedHandIndex >= 0
    /\ EmptySlots(playerHand) # {}
    /\ lastOp.op = "placeAt"

\* C9: from Idle with a tile in slot i, selectSlot(i) gives Selected(i) and a
\* second selectSlot(i) gives Idle again; neither call changes hand, board,
\* staging area or bag.
SelectionToggles ==
    \A i \in Slots :
        /\ (lastOp.op = "selectSlot" /\ lastOp.slot = i /\ IsIdle(pre)
               /\ has_value(pre.playerHand[i]))
              => Cur = [pre EXCEPT !.selectedHandIndex = i]
        /\ (lastOp.op = "selectSlot" /\ lastOp.slot = i /\ IsSelected(pre, i))
              => Cur = [pre EXCEPT !.selectedHandIndex = -1]
        /\ (IsIdle(Cur) /\ has_value(playerHand[i]))
              => /\ IsSelected(selectSlot(Cur, i), i)
                 /\ selectSlot(selectSlot(Cur, i), i) = Cur

\* the second click has acted: the state before it is the one the first click
\* gives from the Idle state reached
SelectionTogglesWitness ==
    \E i \in Slots :
        /\ lastOp.op = "selectSlot" /\ lastOp.slot = i
        /\ IsSelected(pre, i)
        /\ IsIdle(Cur)
        /\ pre = selectSlot(Cur, i)

\* C10: selectSlot(i) on an empty slot i changes nothing, the selection
\* included.
SelectEmptyNoOp ==
    \A i \in Slots :
        (lastOp.op = "selectSlot" /\ lastOp.slot = i /\ ~has_value(pre.playerHand[i]))
            => Cur = pre

\* a click on an empty slot while another slot is selected
SelectEmptyNoOpWitness ==
    \E i \in Slots :
        /\ lastOp.op = "selectSlot" /\ lastOp.slot = i
        /\ ~has_value(pre.playerHand[i])
        /\ pre.selectedHandIndex >= 0

\* C11: placeAt(c) from Idle changes nothing, whatever c; a tile enters the
\* staging area only by a placeAt from a selected hand slot, whose tile it is.
PlaceFromIdleNoOp ==
    /\ (lastOp.op = "placeAt" /\ IsIdle(pre)) => Cur = pre
    /\ \A c \in DOMAIN stagedTiles :
          (c \notin DOMAIN pre.stagedTiles \/ stagedTiles[c] # pre.stagedTiles[c])
              => /\ lastOp.op = "placeAt" /\ lastOp.coord = c
                 /\ \E i \in Slots :
                       IsSelected(pre, i) /\ stagedTiles[c] = value(pre.playerHand[i])

\* a click from Idle on a cell that is free, with tiles in the hand and a
\* tile staged before
PlaceFromIdleNoOpWitness ==
    /\ lastOp.op = "placeAt"
    /\ IsIdle(pre)
    /\ lastOp.coord \notin DOMAIN pre.board \cup DOMAIN pre.stagedTiles
    /\ OccupiedSlots(pre.playerHand) # {}
    /\ DOMAIN pre.stagedTiles # {}

\* b is an initial segment of a
IsPrefix(b, a) == Len(b) <= Len(a) /\ b = SubSeq(a, 1, Len(b))

\* C12: no step makes the bag longer; only a commit changes the bag, by
\* popping tiles off its end, and a reset leaves it as it was.
SupplyShrinks ==
    /\ Len(tileBag) <= Len(pre.tileBag)
    /\ IsPrefix(tileBag, pre.tileBag)
    /\ (tileBag # pre.tileBag => lastOp.op = "commitTurn")
    /\ (lastOp.op = "resetTurn" => tileBag = pre.tileBag)

\* a reset of staged tiles after commits have drawn from the bag
SupplyShrinksWitness ==
    /\ lastOp.op = "resetTurn"
    /\ DOMAIN pre.stagedTiles # {}
    /\ Len(pre.tileBag) < BAG_SIZE - HAND_SIZE

\* number of positions of the sequence v that hold t
CountIn(v, t) == Cardinality({k \in 1..Len(v) : v[k] = t})

\* C13: right after initTileBag, whatever the shuffle, the bag holds 108
\* tiles: exactly 3 of each of the 36 (shape, color) pairs and nothing else.
InitialComposition ==
    lastOp.op = "initTileBag" =>
        /\ Len(tileBag) = BAG_SIZE
        /\ Cardinality(AllTiles) = 36
        /\ \A t \in AllTiles : CountIn(tileBag, t) = NUM_COPIES
        /\ \A k \in 1..Len(tileBag) : tileBag[k] \in AllTiles

\* a bag right after initTileBag that the shuffle has reordered
InitialCompositionWitness ==
    /\ lastOp.op = "initTileBag"
    /\ tileBag # OrderedBag
    /\ \E k \in 1..(Len(tileBag) - 1) : tileBag[k] # tileBag[k + 1]

\* C14: a commit with nothing staged leaves the board as it was and the
\* staging area empty, and ends in Idle; hand and bag change only by the
\* refill: occupied slots keep their tile, and the slots filled hold the
\* tiles popped off the end of the bag.
EmptyCommit ==
    (lastOp.op = "commitTurn" /\ DOMAIN pre.stagedTiles = {}) =>
        /\ board = pre.board
        /\ stagedTiles = EmptyMap
        /\ selectedHandIndex = -1
        /\ DOMAIN playerHand = DOMAIN pre.playerHand
        /\ \A i \in OccupiedSlots(pre.playerHand) : playerHand[i] = pre.playerHand[i]
        /\ IsPrefix(tileBag, pre.tileBag)
        /\ Len(pre.tileBag) - Len(tileBag)
             = Cardinality(OccupiedSlots(playerHand)) - Cardinality(OccupiedSlots(pre.playerHand))
        /\ \A i \in OccupiedSlots(playerHand) \ OccupiedSlots(pre.playerHand) :
              \E k \in (Len(tileBag) + 1)..Len(pre.tileBag) :
                  value(playerHand[i]) = pre.tileBag[k]

\* a commit with nothing staged, clicked while a slot was selected and
\* another slot was empty
EmptyCommitWitness ==
    /\ lastOp.op = "commitTurn"
    /\ DOMAIN pre.stagedTiles = {}
    /\ pre.selectedHandIndex >= 0
    /\ EmptySlots(pre.playerHand) # {}

\* C15: the hand has exactly 6 slots in every reachable state, so the size
\* check of refillHand and resetUnconfirmedTiles never replaces the hand, in
\* the handler that ran last or in the next one.
HandLength ==
    /\ DOMAIN playerHand = Slots
    /\ size(playerHand) = HAND_SIZE
    /\ EnsureSix(playerHand) = playerHand
    /\ EnsureSix(pre.playerHand) = pre.playerHand

\* a commit on a hand with tiles and empty slots: the size check ran and
\* the tiles held are still there
HandLengthWitness ==
    /\ lastOp.op = "commitTurn"
    /\ OccupiedSlots(pre.playerHand) # {}
    /\ EmptySlots(pre.playerHand) # {}
    /\ \A i \in OccupiedSlots(pre.playerHand) : playerHand[i] = pre.playerHand[i]

\* C16: occupied hand slots and staged tiles number at most 6 together, so
\* the hand has an empty slot for every staged tile; a reset finds one for
\* each and never pushes a staged tile back into the bag.
NoReturnSlotUnreachable ==
    /\ Cardinality(OccupiedSlots(playerHand)) + Cardinality(DOMAIN stagedTiles) <= HAND_SIZE
    /\ Cardinality(EmptySlots(playerHand)) >= Cardinality(DOMAIN stagedTiles)
    /\ lastOp.op = "resetTurn" =>
          /\ Cardinality(EmptySlots(pre.playerHand)) >= Cardinality(DOMAIN pre.stagedTiles)
          /\ tileBag = pre.tileBag
          /\ Cardinality(OccupiedSlots(playerHand))
               = Cardinality(OccupiedSlots(pre.playerHand)) + Cardinality(DOMAIN pre.stagedTiles)

\* a reset of two staged tiles on a hand with exactly two empty slots
NoReturnSlotUnreachableWitness ==
    /\ lastOp.op = "resetTurn"
    /\ Cardinality(DOMAIN pre.stagedTiles) = 2
    /\ Cardinality(EmptySlots(pre.playerHand)) = 2

\* C17: no coordinate is a key of both the staging area and the board, in
\* every state; so a commit never overwrites a board entry, and its board is
\* the union of the old board and the staged batch whichever of the two is
\* given priority, that is, in whatever order the staged entries land.
StagedBoardDisjoint ==
    /\ DOMAIN stagedTiles \cap DOMAIN board = {}
    /\ DOMAIN pre.stagedTiles \cap DOMAIN pre.board = {}
    /\ lastOp.op = "commitTurn" =>
          /\ \A c \in DOMAIN pre.stagedTiles : ~isOccupied(pre.board, c)
          /\ board = pre.stagedTiles @@ pre.board
          /\ board = pre.board @@ pre.stagedTiles

\* a commit of a staged batch next to a clicked cell already on the board
StagedBoardDisjointWitness ==
    /\ lastOp.op = "commitTurn"
    /\ DOMAIN pre.stagedTiles # {}
    /\ Coords \cap DOMAIN pre.board # {}

\* C18: in every state the bag, the occupied hand slots, the staging area and
\* the board hold 3 copies of each of the 36 tiles together and nothing else
\* (counted shape by shape, then colour by colour); a commit draws exactly
\* one tile of the bag per slot it fills, so no placeholder tile is made up
\* from an empty bag.
TileMultisetConserved ==
    /\ \A m \in 1..Len(Shapes) :
          LET sh == Shapes[m]
              inBag == {k \in 1..Len(tileBag) : tileBag[k].shape = sh}
              inHand == {i \in OccupiedSlots(playerHand) : value(playerHand[i]).shape = sh}
              inStaged == {c \in DOMAIN stagedTiles : stagedTiles[c].shape = sh}
              onBoard == {c \in DOMAIN board : board[c].shape = sh}
          IN  \A n \in 1..Len(Colors) :
                LET co == Colors[n] IN
                Cardinality({k \in inBag : tileBag[k].color = co})
                  + Cardinality({i \in inHand : value(playerHand[i]).color = co})
                  + Cardinality({c \in inStaged : stagedTiles[c].color = co})
                  + Cardinality({c \in onBoard : board[c].color = co}) = NUM_COPIES
    /\ Len(tileBag) + Cardinality(OccupiedSlots(playerHand))
         + Cardinality(DOMAIN stagedTiles) + Cardinality(DOMAIN board)
           = NUM_COPIES * Cardinality(AllTiles)
    /\ lastOp.op = "commitTurn" =>
          Cardinality(OccupiedSlots(playerHand)) - Cardinality(OccupiedSlots(pre.playerHand))
            = Len(pre.tileBag) - Len(tileBag)

\* a commit that emptied the bag and left a hand slot empty for want of tiles
TileMultisetConservedWitness ==
    /\ lastOp.op = "commitTurn"
    /\ Len(pre.tileBag) > 0
    /\ Len(tileBag) = 0
    /\ EmptySlots(playerHand) # {}

\* a step that is a reset
ResetStep == lastOp'.op = "resetTurn" /\ turns' = turns + 1

\* the two hands hold the same tiles, each as many times
SameHandTiles(g, h) ==
    \A t \in AllTiles :
        Cardinality({i \in DOMAIN g : g[i] = Some(t)})
          = Cardinality({i \in DOMAIN h : h[i] = Some(t)})

\* C19 as stated: a reset gives back the board and the bag of the state S
\* right after the last initialization, commit or reset, empties the staging
\* area, ends in Idle, and leaves the hand with the occupied slot indices of
\* S and the tiles of S.
ResetUndoesTurnSameSlots ==
    [][ResetStep =>
          /\ board' = turnStart.board
          /\ tileBag' = turnStart.tileBag
          /\ stagedTiles' = EmptyMap
          /\ selectedHandIndex' = -1
          /\ OccupiedSlots(playerHand') = OccupiedSlots(turnStart.playerHand)
          /\ SameHandTiles(playerHand', turnStart.playerHand)]_vars

\* C19 amended: as above, but the hand has as many occupied slots as in S;
\* their indices are those of S when every slot of the hand of S held a tile.
ResetUndoesTurn ==
    [][ResetStep =>
          /\ board' = turnStart.board
          /\ tileBag' = turnStart.tileBag
          /\ stagedTiles' = EmptyMap
          /\ selectedHandIndex' = -1
          /\ Cardinality(OccupiedSlots(playerHand'))
               = Cardinality(OccupiedSlots(turnStart.playerHand))
          /\ (EmptySlots(turnStart.playerHand) = {}
                => OccupiedSlots(playerHand') = OccupiedSlots(turnStart.playerHand))
          /\ SameHandTiles(playerHand', turnStart.playerHand)]_vars

\* a reset of staged tiles in a turn that began with an empty hand slot, the
\* bag having run out: a tile went back into a slot below one left empty
ResetUndoesTurnWitness ==
    /\ lastOp.op = "resetTurn"
    /\ DOMAIN pre.stagedTiles # {}
    /\ Len(tileBag) = 0
    /\ \E i \in EmptySlots(playerHand), j \in OccupiedSlots(playerHand) :
          j < i /\ ~has_value(pre.playerHand[j])

\* C20: in every state with a non-empty bag the occupied hand slots and the
\* staged tiles number 6 together; fewer than 6 only with the bag empty.
FullHandWhileSupply ==
    /\ Len(tileBag) > 0 =>
          Cardinality(OccupiedSlots(playerHand)) + Cardinality(DOMAIN stagedTiles) = HAND_SIZE
    /\ Cardinality(OccupiedSlots(playerHand)) + Cardinality(DOMAIN stagedTiles) < HAND_SIZE
          => Len(tileBag) = 0

\* a commit of two staged tiles whose refill left tiles in the bag
FullHandWhileSupplyWitness ==
    /\ lastOp.op = "commitTurn"
    /\ Cardinality(DOMAIN pre.stagedTiles) = 2
    /\ Len(tileBag) > 0

\* some click changes the state
CanMove ==
    \/ \E i \in Slots : selectSlot(Cur, i) # Cur
    \/ \E c \in Coords \cup {PlayerCell} : placeAt(Cur, c) # Cur
    \/ commitTurn(Cur) # Cur
    \/ resetTurn(Cur) # Cur

\* bag, hand and staging area are empty and all 108 tiles are on the board
PlayedOut ==
    /\ Len(tileBag) = 0
    /\ OccupiedSlots(playerHand) = {}
    /\ DOMAIN stagedTiles = {}
    /\ Cardinality(DOMAIN board) = BAG_SIZE

\* C21: in every state in which the hand or the staging area holds a tile
\* some click changes the state, and the session of the player who in each
\* turn selects an occupied slot, places its tile on a free cell and commits
\* eventually has bag, hand and staging area empty and 108 tiles on the
\* board.
PlaysOut ==
    /\ [](OccupiedSlots(playerHand) # {} \/ DOMAIN stagedTiles # {} => CanMove)
    /\ <>PlayedOut

\* the last commit of the session: the last tile of the hand lands
PlaysOutWitness ==
    /\ PlayedOut
    /\ lastOp.op = "commitTurn"
    /\ Cardinality(OccupiedSlots(pre.playerHand)) = 0
    /\ Cardinality(DOMAIN pre.stagedTiles) = 1
    /\ turns = BAG_SIZE

====
